---- MODULE Spec2Model ----
(***************************************************************************)
(* Paper trader: the channel poller (trader_poller.py) and the issue bot   *)
(* (trade_bot.py).  Both read a portfolio file, handle a batch of inbound  *)
(* items, fill or reject the orders among them and append to a ledger.     *)
(*                                                                         *)
(* Money is counted in mills (1/1000 dollar): a cent is 10 mills, so that  *)
(* quotes finer than a cent and round(x, 2) are both visible.  The binary  *)
(* floating point error of qty * px is kept as a sign (FloatErr): it is    *)
(* far below a mill, and it decides a comparison of two amounts that are   *)
(* equal as decimals.                                                      *)
(***************************************************************************)
EXTENDS Integers, Sequences, FiniteSets, TLC

VARIABLES
    cap,          \* how many items are posted and how many transport calls fail
    variant,      \* which script is deployed: "poller" or "bot"
    inbox,        \* channel messages / issues, oldest first; id = index
    filePtf,      \* data/portfolio.json
    ledger,       \* data/ledger.csv, one record per row
    fileLastId,   \* data/state.json: last_message_id
    pc,           \* position of the running process
    todo,         \* items the current loop still has to visit
    raw,          \* trade_bot: orders collected by get_new_orders
    ptf,          \* the portfolio held in memory (trade_bot: cash, positions)
    quotes,       \* trade_bot: quotes fetched for the batch
    lastId,       \* poller: last_id read at the start of main
    newLastId,    \* poller: new_last_id
    processedAny, \* poller: processed_any
    orderQuoted,  \* tickers whose quote an order asked for in this run
    last,         \* the last order handled: what it saw and what it left
    fails,        \* transport failures so far
    aborted,      \* a process was ended by a transport failure after its batch was fetched
    fills,        \* trade_bot: the fills of the batch, for the summary
    batch,        \* identifiers of the items the current run fetched, oldest first
    note,         \* the last notification a command or a batch was answered with
    ptf0,         \* the portfolio file before the first run
    arg,          \* a function applied on its own: its input
    res           \* a function applied on its own: its result

vars == <<cap, variant, inbox, filePtf, ledger, fileLastId, pc, todo, raw, ptf,
          quotes, lastId, newLastId, processedAny, orderQuoted, last, fails, aborted,
          fills, batch, note, ptf0, arg, res>>

\* ---------------------------------------------------------------- bounds

MaxMsgs == 2        \* items posted where every transport call succeeds
MaxFailMsgs == 1    \* items posted where transport calls may fail
MaxFails == 1       \* transport calls that fail
MaxHeld == 26       \* positions of a portfolio that is reported
MaxFills == 26      \* fills of a batch that is summarised

\* ------------------------------------------------------------- constants

NoneId == 0            \* last_message_id: None
NoPx == -1             \* quotes.get(sym) is None: the ticker has no quote
NoEvent == [kind |-> "none"]

Allow == {"AAPL", "MSFT"}          \* data/symbols_allowlist.txt
Prices == {100, 105}               \* quotes, in mills: $0.10 and $0.105
QuoteOutcomes == Prices \cup {NoPx}
QtyTokens == {"0", "1", "3"}

EmptyPos == [t \in {} |-> 0]
InitPortfolios ==
    { [cash |-> 300,  positions |-> EmptyPos],
      [cash |-> 1000, positions |-> [t \in {"AAPL", "MSFT"} |-> IF t = "AAPL" THEN 3 ELSE 2]] }

\* ------------------------------------------------------- dict operations

Get(pos, t, d) == IF t \in DOMAIN pos THEN pos[t] ELSE d
Put(pos, t, q) == [x \in (DOMAIN pos) \cup {t} |-> IF x = t THEN q ELSE pos[x]]
Pop(pos, t) == [x \in (DOMAIN pos) \ {t} |-> pos[x]]

Reverse(s) == [i \in 1..Len(s) |-> s[Len(s) + 1 - i]]

\* ----------------------------------------------------------- arithmetic

\* round(x, 2) of a non-negative amount x in mills.  A decimal tie (5 mills)
\* goes the way the binary value of x lies, which the decimal does not fix:
\* round(0.405, 2) = 0.41 and round(0.3 + 0.105, 2) = 0.4.
Round2(x) ==
    LET lo == x - (x % 10)
    IN  IF x % 10 < 5 THEN {lo}
        ELSE IF x % 10 > 5 THEN {lo + 10}
        ELSE {lo, lo + 10}

\* Sign of  fl(qty * fl(px)) - fl(qty * px)  in IEEE-754 binary64 for the
\* quotes of the model: 3 * 0.1 = 0.30000000000000004 > 0.3, as 6 * 0.1 and
\* 7 * 0.1; every other product of qty <= 10 with 0.1 or 0.105 is the
\* double nearest the decimal product.
FloatErr(qty, px) == IF px = 100 /\ qty \in {3, 6, 7} THEN 1 ELSE 0

\* ------------------------------------------------------------ the parser

\* str.upper and str.lower on the tokens users type.
Upper(tok) == IF tok = "aapl" THEN "AAPL" ELSE tok
Lower(tok) == CASE tok = "!SELL" -> "!sell" [] tok = "/SELL" -> "/sell" [] OTHER -> tok

\* [A-Za-z0-9\.-]{1,10} (trade_bot.py: [\w\.-]{1,10}) and \d+.
IsTickerTok(tok) == tok \in {"AAPL", "aapl", "ZZZZ", "MSFT"} \cup QtyTokens
IsDigitsTok(tok) == tok \in QtyTokens
\* int(m.group(3)).
IntOf(tok) == CASE tok = "0" -> 0 [] tok = "1" -> 1 [] tok = "3" -> 3

\* s.lower().startswith("!portfolio"), on the first token.
StartsWithPortfolio(tok) == Lower(tok) \in {"!portfolio", "!portfolios"}

\* trader_poller.py: ORDER_RE, PRICE_RE and parse_command on the
\* whitespace-separated tokens of the stripped text.
parse_command(text) ==
    IF /\ Len(text) = 3
       /\ Lower(text[1]) \in {"!buy", "!sell"}
       /\ IsTickerTok(text[2])
       /\ IsDigitsTok(text[3])
    THEN [kind |-> "order",
          side |-> IF Lower(text[1]) = "!buy" THEN "buy" ELSE "sell",
          sym  |-> Upper(text[2]),
          qty  |-> IntOf(text[3])]
    ELSE IF Len(text) = 2 /\ Lower(text[1]) = "!price" /\ IsTickerTok(text[2])
    THEN [kind |-> "price", sym |-> Upper(text[2])]
    ELSE IF Len(text) >= 1 /\ StartsWithPortfolio(text[1])
    THEN [kind |-> "portfolio"]
    ELSE [kind |-> "none"]

\* trade_bot.py: ORDER_RE and parse_order; the quantity may be followed by
\* "@mkt".
parse_order(text) ==
    IF /\ Len(text) = 3 \/ (Len(text) = 4 /\ text[4] = "@mkt")
       /\ Lower(text[1]) \in {"/buy", "/sell"}
       /\ IsTickerTok(text[2])
       /\ IsDigitsTok(text[3])
    THEN [kind |-> "order",
          side |-> IF Lower(text[1]) = "/buy" THEN "buy" ELSE "sell",
          sym  |-> Upper(text[2]),
          qty  |-> IntOf(text[3])]
    ELSE [kind |-> "none"]

\* What users type: orders on an allowed and on a disallowed ticker, with
\* quantities 0, 1 and 3, text that is no command and, in the channel, the
\* two queries.
Texts(buy, sell, SELL) ==
    { <<buy, "AAPL", "0">>, <<buy, "aapl", "1">>, <<buy, "AAPL", "3">>,
      <<sell, "AAPL", "1">>, <<sell, "AAPL", "3">>,
      <<buy, "ZZZZ", "3">>, <<SELL, "ZZZZ", "1">>, <<"hello">> }
PollerTexts ==
    Texts("!buy", "!sell", "!SELL") \cup { <<"!price", "ZZZZ">>, <<"!portfolio">> }
BotTexts == Texts("/buy", "/sell", "/SELL")

\* ------------------------------------------------------- the fill engine

LedgerRow(side, sym, qty, px, src) ==
    [side |-> side, ticker |-> sym, qty |-> qty, px |-> px,
     value |-> qty * px, src |-> src]

\* trader_poller.py do_order: `cost > ptf["cash"]`, on doubles.  cash is a
\* round(., 2) result, the double nearest its decimal.
PollerInsufficient(qty, px, cash) ==
    \/ qty * px > cash
    \/ qty * px = cash /\ FloatErr(qty, px) > 0

\* The cash gate with the price compared instead of the cost.
BotInsufficient_price_only(qty, px, cash) == px > cash

\* trade_bot.py fill_orders: `cost > cash + 1e-9`.  The tolerance is far
\* above the floating point error and far below a mill.
BotInsufficient(qty, px, cash) == qty * px > cash

\* A gate that fails: the rejection is posted and the handler returns with
\* the portfolio and the ledger as they were.
Reject(p, reason, lookup) ==
    [outcome |-> reason, ptfs |-> {p}, rows |-> <<>>, lookup |-> lookup]

\* trader_poller.py do_order, lines 117-125.
poller_buy(sym, qty, p, q, src) ==
    IF PollerInsufficient(qty, q, p.cash) THEN Reject(p, "insufficient_cash", TRUE)
    ELSE [outcome |-> "filled_buy",
          ptfs |-> { [cash |-> c,
                      positions |-> Put(p.positions, sym, Get(p.positions, sym, 0) + qty)]
                     : c \in Round2(p.cash - qty * q) },
          rows |-> <<LedgerRow("BUY", sym, qty, q, src)>>,
          lookup |-> TRUE]

\* poller_sell with the proceeds credited before the share check.
poller_sell_credit_first(sym, qty, p, q, src) ==
    LET pos == Get(p.positions, sym, 0)
        newq == pos - qty
        paid == { [p EXCEPT !.cash = c] : c \in Round2(p.cash + qty * q) }
    IN  IF qty > pos
        THEN [outcome |-> "not_enough_shares", ptfs |-> paid, rows |-> <<>>, lookup |-> TRUE]
        ELSE [outcome |-> "filled_sell",
              ptfs |-> { [cash |-> x.cash,
                          positions |-> IF newq # 0 THEN Put(p.positions, sym, newq)
                                        ELSE Pop(p.positions, sym)] : x \in paid },
              rows |-> <<LedgerRow("SELL", sym, qty, q, src)>>,
              lookup |-> TRUE]

\* trader_poller.py do_order, lines 126-137.
poller_sell(sym, qty, p, q, src) ==
    LET pos == Get(p.positions, sym, 0)
        newq == pos - qty
    IN  IF qty > pos THEN Reject(p, "not_enough_shares", TRUE)
        ELSE [outcome |-> "filled_sell",
              ptfs |-> { [cash |-> c,
                          positions |-> IF newq # 0 THEN Put(p.positions, sym, newq)
                                        ELSE Pop(p.positions, sym)]
                         : c \in Round2(p.cash + qty * q) },
              rows |-> <<LedgerRow("SELL", sym, qty, q, src)>>,
              lookup |-> TRUE]

\* do_order with the quote fetched before the allowlist is consulted.
do_order_quote_first(side, sym, qty, p, allow, q, src) ==
    IF q = NoPx THEN Reject(p, "no_price", TRUE)
    ELSE IF sym \notin allow THEN Reject(p, "not_allowed", TRUE)
    ELSE IF side = "buy" THEN poller_buy(sym, qty, p, q, src)
    ELSE poller_sell(sym, qty, p, q, src)

\* trader_poller.py do_order, up to its one discord_post.  q is what
\* fetch_quotes gives for sym.  The result names the outcome, the
\* portfolios the mutation can leave (round) and the ledger rows appended.
do_order(side, sym, qty, p, allow, q, src) ==
    IF sym \notin allow THEN Reject(p, "not_allowed", FALSE)
    ELSE IF q = NoPx THEN Reject(p, "no_price", TRUE)
    ELSE IF side = "buy" THEN poller_buy(sym, qty, p, q, src)
    ELSE poller_sell(sym, qty, p, q, src)

\* trade_bot.py fill_orders, lines 146-155.  cash is not rounded here: round
\* is applied when the portfolio is saved.
bot_buy(sym, qty, p, q, src) ==
    IF BotInsufficient(qty, q, p.cash) THEN Reject(p, "insufficient_cash", TRUE)
    ELSE [outcome |-> "filled_buy",
          ptfs |-> { [cash |-> p.cash - qty * q,
                      positions |-> Put(p.positions, sym, Get(p.positions, sym, 0) + qty)] },
          rows |-> <<LedgerRow("BUY", sym, qty, q, src)>>,
          lookup |-> TRUE]

\* bot_sell that keeps the entry of a position sold out.
bot_sell_keep_zero(sym, qty, p, q, src) ==
    LET pos == Get(p.positions, sym, 0)
    IN  IF qty > pos THEN Reject(p, "not_enough_shares", TRUE)
        ELSE [outcome |-> "filled_sell",
              ptfs |-> { [cash |-> p.cash + qty * q,
                          positions |-> Put(p.positions, sym, pos - qty)] },
              rows |-> <<LedgerRow("SELL", sym, qty, q, src)>>,
              lookup |-> TRUE]

\* trade_bot.py fill_orders, lines 157-169.
bot_sell(sym, qty, p, q, src) ==
    LET pos == Get(p.positions, sym, 0)
    IN  IF qty > pos THEN Reject(p, "not_enough_shares", TRUE)
        ELSE [outcome |-> "filled_sell",
              ptfs |-> { [cash |-> p.cash + qty * q,
                          positions |-> IF pos - qty = 0 THEN Pop(p.positions, sym)
                                        ELSE Put(p.positions, sym, pos - qty)] },
              rows |-> <<LedgerRow("SELL", sym, qty, q, src)>>,
              lookup |-> TRUE]

\* trade_bot.py fill_orders, the body of its loop for one order (lines
\* 141-169), up to mark_issue_done.
fill_one(side, sym, qty, p, q, src) ==
    IF q = NoPx THEN Reject(p, "no_price", TRUE)
    ELSE IF side = "buy" THEN bot_buy(sym, qty, p, q, src)
    ELSE bot_sell(sym, qty, p, q, src)

\* What the handling of one order saw and did.
Event(id, o, r, q, before, after, post) ==
    [kind |-> "order", id |-> id, side |-> o.side, sym |-> o.sym, qty |-> o.qty,
     outcome |-> r.outcome, px |-> q, before |-> before, after |-> after,
     rows |-> r.rows, lookup |-> r.lookup, post |-> post]

\* --------------------------------------------------------- notifications

FieldCap == 25         \* fields[:25]

\* fields[:n].
Take(fields, n) == SubSeq(fields, 1, IF Len(fields) < n THEN Len(fields) ELSE n)

\* fetch_quotes(tickers): the dicts it can return.  A ticker whose lookup
\* gives no price (trader_poller.py: or raises) has no entry.
fetch_quotes(tickers) ==
    { [t \in { u \in tickers : f[u] # NoPx } |-> f[t]] : f \in [tickers -> QuoteOutcomes] }

\* pos.items(): the entries of the dict, in an order the model does not
\* follow (the dict's insertion order).
RECURSIVE Items(_)
Items(pos) ==
    IF DOMAIN pos = {} THEN <<>>
    ELSE LET t == CHOOSE x \in DOMAIN pos : TRUE
         IN  <<[sym |-> t, q |-> pos[t]]>> \o Items(Pop(pos, t))

\* The valuation loop of do_portfolio (lines 150-155) and of mark_to_market
\* (lines 186-193): a position with no quote is passed over.
RECURSIVE Valuation(_, _)
Valuation(items, qs) ==
    IF items = <<>> THEN [eq |-> 0, fields |-> <<>>]
    ELSE LET it == Head(items)
             rest == Valuation(Tail(items), qs)
         IN  IF it.sym \notin DOMAIN qs THEN rest
             ELSE [eq |-> it.q * qs[it.sym] + rest.eq,
                   fields |-> <<[name |-> it.sym, qty |-> it.q, px |-> qs[it.sym],
                                 val |-> it.q * qs[it.sym]]>> \o rest.fields]

\* An embed whose title carries nav and cash, both formatted with two
\* decimals: the notifications the formatting can give.
Titled(kind, nav, cash, fields) ==
    { [kind |-> kind, nav |-> n, cash |-> c, fields |-> fields]
      : n \in Round2(nav), c \in Round2(cash) }

\* do_portfolio with the cash left out of the net asset value.
do_portfolio_equity_only(p, qs) ==
    LET v == Valuation(Items(p.positions), qs)
    IN  Titled("portfolio", v.eq, p.cash, Take(v.fields, FieldCap))

\* trader_poller.py do_portfolio, given what fetch_quotes returns for the
\* held tickers.  With no positions the title carries the cash alone.
do_portfolio(p, qs) ==
    IF DOMAIN p.positions = {} THEN Titled("portfolio", p.cash, p.cash, <<>>)
    ELSE LET v == Valuation(Items(p.positions), qs)
         IN  Titled("portfolio", p.cash + v.eq, p.cash, Take(v.fields, FieldCap))

\* trade_bot.py mark_to_market, given what fetch_quotes returns.
mark_to_market(p, qs) ==
    LET v == Valuation(Items(p.positions), qs)
    IN  Titled("mark", p.cash + v.eq, p.cash, Take(v.fields, FieldCap))

\* do_price that answers for allowlisted tickers only.
do_price_allowlisted(sym, q) ==
    IF q = NoPx \/ sym \notin Allow THEN { [kind |-> "no_price", sym |-> sym, quote |-> q] }
    ELSE { [kind |-> "price", sym |-> sym, px |-> x, quote |-> q] : x \in Round2(q) }

\* trader_poller.py do_price, given the quote of sym: the price is posted
\* with two decimals.  quote records what the lookup gave.
do_price(sym, q) ==
    IF q = NoPx THEN { [kind |-> "no_price", sym |-> sym, quote |-> q] }
    ELSE { [kind |-> "price", sym |-> sym, px |-> x, quote |-> q] : x \in Round2(q) }

\* trade_bot.py fill_orders, lines 176-179: the summary of the fills of a
\* batch, one field per fill; nothing is posted for a batch with no fill.
fill_summary(fs) ==
    IF fs = <<>> THEN NoEvent
    ELSE [kind |-> "fills", fields |-> fs]

\* What do_order posts: the text of a rejection, or an embed with one field.
OrderNote(o, r) ==
    [kind |-> "order", outcome |-> r.outcome,
     fields |-> IF r.rows = <<>> THEN <<>> ELSE <<[name |-> o.sym, qty |-> o.qty]>>]

\* main, line 201: the error post.
ErrorNote == [kind |-> "error"]

\* ------------------------------------------------------------------ Init

NoPtf == [cash |-> 0, positions |-> EmptyPos]

InitWith(msgs, failures) ==
    /\ cap = [msgs |-> msgs, fails |-> failures]
    /\ variant \in {"poller", "bot"}
    /\ inbox = <<>>
    /\ filePtf \in InitPortfolios
    /\ ledger = <<>>
    /\ fileLastId = NoneId
    /\ pc = "idle"
    /\ todo = <<>>
    /\ raw = <<>>
    /\ ptf = NoPtf
    /\ quotes = EmptyPos
    /\ lastId = NoneId
    /\ newLastId = NoneId
    /\ processedAny = FALSE
    /\ orderQuoted = {}
    /\ last = NoEvent
    /\ fails = 0
    /\ aborted = FALSE
    /\ fills = <<>>
    /\ batch = <<>>
    /\ note = NoEvent
    /\ ptf0 = filePtf
    /\ arg = NoEvent
    /\ res = NoEvent

\* Every transport call succeeds.
Init == InitWith(MaxMsgs, 0)

\* Transport calls may fail.
InitF == InitWith(MaxFailMsgs, MaxFails)

\* The locals of a process that has ended.
Exit ==
    /\ pc' = "idle"
    /\ todo' = <<>>
    /\ raw' = <<>>
    /\ ptf' = NoPtf
    /\ quotes' = EmptyPos
    /\ lastId' = NoneId
    /\ newLastId' = NoneId
    /\ processedAny' = FALSE
    /\ fills' = <<>>

\* ----------------------------------------------------------- environment

\* A user posts an item; so may a bot account, and what it posts may read
\* as an order.
Post ==
    /\ Len(inbox) < cap.msgs
    /\ \E text \in (IF variant = "poller" THEN PollerTexts ELSE BotTexts),
          b \in BOOLEAN :
         /\ b => text \in { <<"!buy", "AAPL", "3">>, <<"/buy", "AAPL", "3">> }
         /\ inbox' = Append(inbox, [id |-> Len(inbox) + 1, bot |-> b, text |-> text,
                                    status |-> "open", comments |-> 0])
    /\ UNCHANGED <<cap, variant, filePtf, ledger, fileLastId, pc, todo, raw, ptf, quotes,
                   lastId, newLastId, processedAny, orderQuoted, last, fails, aborted>>
    /\ UNCHANGED <<fills, batch, note, ptf0, arg, res>>

\* -------------------------------------------------- trader_poller.py main

\* discord_get_messages that takes the message at the cursor too.
discord_get_messages_inclusive(after) ==
    Reverse(SelectSeq(inbox, LAMBDA m : m.id >= after))

\* discord_get_messages(after=last_id): the messages after the cursor,
\* newest first.
discord_get_messages(after) ==
    Reverse(SelectSeq(inbox, LAMBDA m : m.id > after))

\* The identifiers of a list of items.
Ids(items) == [i \in 1..Len(items) |-> items[i].id]

\* main, lines 160-171: load the state, the portfolio and the allowlist and
\* fetch; the loop then visits reversed(msgs).
PollerStart ==
    /\ variant = "poller" /\ pc = "idle"
    /\ pc' = "loop"
    /\ lastId' = fileLastId
    /\ newLastId' = fileLastId
    /\ processedAny' = FALSE
    /\ ptf' = filePtf
    /\ todo' = Reverse(discord_get_messages(fileLastId))
    /\ batch' = Ids(todo')
    /\ orderQuoted' = {}
    /\ last' = NoEvent
    /\ note' = NoEvent
    /\ UNCHANGED <<cap, variant, inbox, filePtf, ledger, fileLastId, raw, quotes, fails, aborted>>
    /\ UNCHANGED <<fills, ptf0, arg, res>>

\* discord_get_messages raises (403 or raise_for_status): main ends before
\* anything is read or written.
PollerFetchFails ==
    /\ variant = "poller" /\ pc = "idle"
    /\ fails < cap.fails
    /\ fails' = fails + 1
    /\ UNCHANGED aborted
    /\ UNCHANGED <<cap, variant, inbox, filePtf, ledger, fileLastId, pc, todo, raw, ptf,
                   quotes, lastId, newLastId, processedAny, orderQuoted, last>>
    /\ UNCHANGED <<fills, batch, note, ptf0, arg, res>>

\* One pass of the loop over a message the loop passes over: a bot's, an
\* empty one, or text parse_command does not recognise.
PollerSkip ==
    /\ variant = "poller" /\ pc = "loop" /\ todo # <<>>
    /\ LET m == Head(todo)
       IN  /\ m.bot \/ m.text = <<>> \/ parse_command(m.text).kind = "none"
           /\ newLastId' = m.id
    /\ todo' = Tail(todo)
    /\ UNCHANGED <<cap, variant, inbox, filePtf, ledger, fileLastId, pc, raw, ptf, quotes,
                   lastId, processedAny, orderQuoted, last, fails, aborted>>
    /\ UNCHANGED <<fills, batch, note, ptf0, arg, res>>

\* One pass of the loop over an order: do_order, save_portfolio, the
\* reaction.  post is what becomes of do_order's discord_post:
\*   "ok"     posted;
\*   "caught" it raised HTTPError, caught at line 200, and the error post
\*            was sent: save_portfolio is skipped and the loop goes on;
\*   "abort"  it raised SystemExit (403), or the error post raised too:
\*            the process ends.
PollerOrder ==
    /\ variant = "poller" /\ pc = "loop" /\ todo # <<>>
    /\ LET m == Head(todo)
           o == parse_command(m.text)
       IN  /\ ~m.bot /\ m.text # <<>> /\ o.kind = "order"
           /\ \E q \in QuoteOutcomes, post \in {"ok", "caught", "abort"} :
                LET r == do_order(o.side, o.sym, o.qty, ptf, Allow, q, m.id)
                IN  \E np \in r.ptfs :
                      /\ post # "ok" => fails < cap.fails
                      /\ fails' = IF post = "ok" THEN fails ELSE fails + 1
                      /\ aborted' = (aborted \/ post = "abort")
                      /\ ledger' = ledger \o r.rows
                      /\ orderQuoted' = IF r.lookup THEN orderQuoted \cup {o.sym}
                                        ELSE orderQuoted
                      /\ last' = Event(m.id, o, r, IF r.lookup THEN q ELSE NoPx,
                                       ptf, np, post)
                      /\ note' = CASE post = "ok" -> OrderNote(o, r)
                                   [] post = "caught" -> ErrorNote
                                   [] post = "abort" -> note
                      /\ filePtf' = IF post = "ok" THEN np ELSE filePtf
                      /\ IF post = "abort"
                         THEN Exit
                         ELSE /\ ptf' = np
                              /\ processedAny' = (processedAny \/ post = "ok")
                              /\ newLastId' = m.id
                              /\ todo' = Tail(todo)
                              /\ UNCHANGED <<pc, raw, fills, quotes, lastId>>
    /\ UNCHANGED <<cap, variant, inbox, fileLastId, batch, ptf0, arg, res>>

\* What a query is answered with: do_price(sym) with the quote fetched
\* for sym, do_portfolio(ptf) with the quotes fetched for the held tickers.
Answers(c, p) ==
    IF c.kind = "price"
    THEN UNION { do_price(c.sym, q) : q \in QuoteOutcomes }
    ELSE UNION { do_portfolio(p, qs) : qs \in fetch_quotes(DOMAIN p.positions) }

\* One pass of the loop over a price or a portfolio query: do_price or
\* do_portfolio fetches quotes and posts; nothing is written.  post is
\* what becomes of the post, as in PollerOrder.
PollerQuery ==
    /\ variant = "poller" /\ pc = "loop" /\ todo # <<>>
    /\ LET m == Head(todo)
           c == parse_command(m.text)
       IN  /\ ~m.bot /\ m.text # <<>>
           /\ c.kind \in {"price", "portfolio"}
           /\ \E post \in {"ok", "caught", "abort"}, n \in Answers(c, ptf) :
                /\ post # "ok" => fails < cap.fails
                /\ note' = CASE post = "ok" -> n
                             [] post = "caught" -> ErrorNote
                             [] post = "abort" -> note
                /\ fails' = IF post = "ok" THEN fails ELSE fails + 1
                /\ aborted' = (aborted \/ post = "abort")
                /\ IF post = "abort"
                   THEN Exit
                   ELSE /\ processedAny' = (processedAny \/ post = "ok")
                        /\ newLastId' = m.id
                        /\ todo' = Tail(todo)
                        /\ UNCHANGED <<pc, raw, fills, ptf, quotes, lastId>>
    /\ UNCHANGED <<cap, variant, inbox, filePtf, ledger, fileLastId, orderQuoted, last>>
    /\ UNCHANGED <<batch, ptf0, arg, res>>

\* main, lines 205-214: the cursor is saved.
PollerEnd ==
    /\ variant = "poller" /\ pc = "loop" /\ todo = <<>>
    /\ fileLastId' = IF processedAny THEN newLastId
                     ELSE IF lastId # newLastId /\ newLastId # NoneId THEN newLastId
                     ELSE fileLastId
    /\ Exit
    /\ UNCHANGED <<cap, variant, inbox, filePtf, ledger, orderQuoted, last, fails, aborted>>
    /\ UNCHANGED <<batch, note, ptf0, arg, res>>

\* ------------------------------------------------ trade_bot.py fill_orders

\* open_issues without the state filter: every issue ever labelled.
open_issues_all == Reverse(inbox)

\* GET /repos/{REPO}/issues?state=open&labels=...: the open issues that
\* carry the order label, in the order the endpoint lists them by default
\* (sort=created, direction=desc: the newest first).
open_issues ==
    Reverse(SelectSeq(inbox, LAMBDA it : it.status = "open"))

\* A comment on issue num, then a PATCH of it to status st.  how tells
\* which of the two requests raise_for_status fails on, if any.
Reply(inb, num, st, how) ==
    [i \in 1..Len(inb) |->
        IF inb[i].id # num \/ how = "fail_comment" THEN inb[i]
        ELSE [inb[i] EXCEPT !.comments = @ + 1,
                            !.status = IF how = "ok" THEN st ELSE @]]

\* mark_issue_done that comments and leaves the issue open.
mark_issue_done_leaves_open(inb, num, how) == Reply(inb, num, "open", how)

\* mark_issue_done(num, msg).
mark_issue_done(inb, num, how) == Reply(inb, num, "closed", how)

\* fill_orders, lines 114-120: load the allowlist and the portfolio, list
\* the issues; get_new_orders then visits them.
BotStart ==
    /\ variant = "bot" /\ pc = "idle"
    /\ pc' = "scan"
    /\ ptf' = filePtf
    /\ todo' = open_issues
    /\ batch' = Reverse(Ids(open_issues))
    /\ raw' = <<>>
    /\ orderQuoted' = {}
    /\ last' = NoEvent
    /\ note' = NoEvent
    /\ UNCHANGED <<cap, variant, inbox, filePtf, ledger, fileLastId, quotes, lastId,
                   newLastId, processedAny, fails, aborted>>
    /\ UNCHANGED <<fills, ptf0, arg, res>>

\* The listing request fails: gh raises and the process ends.
BotFetchFails ==
    /\ variant = "bot" /\ pc = "idle"
    /\ fails < cap.fails
    /\ fails' = fails + 1
    /\ UNCHANGED aborted
    /\ UNCHANGED <<cap, variant, inbox, filePtf, ledger, fileLastId, pc, todo, raw, ptf,
                   quotes, lastId, newLastId, processedAny, orderQuoted, last>>
    /\ UNCHANGED <<fills, batch, note, ptf0, arg, res>>

\* get_new_orders, one pass of its loop over an issue that parses.
BotScanOrder ==
    /\ variant = "bot" /\ pc = "scan" /\ todo # <<>>
    /\ LET it == Head(todo)
           o == parse_order(it.text)
       IN  /\ o.kind = "order"
           /\ raw' = Append(raw, [num |-> it.id, o |-> o])
    /\ todo' = Tail(todo)
    /\ UNCHANGED <<cap, variant, inbox, filePtf, ledger, fileLastId, pc, ptf, quotes,
                   lastId, newLastId, processedAny, orderQuoted, last, fails, aborted>>
    /\ UNCHANGED <<fills, batch, note, ptf0, arg, res>>

\* get_new_orders, one pass of its loop over an issue that does not parse:
\* the usage comment, then the label is replaced by <label>:invalid.
BotScanInvalid ==
    /\ variant = "bot" /\ pc = "scan" /\ todo # <<>>
    /\ LET it == Head(todo)
       IN  /\ parse_order(it.text).kind = "none"
           /\ \E how \in {"ok", "fail_comment", "fail_patch"} :
                /\ how # "ok" => fails < cap.fails
                /\ fails' = IF how = "ok" THEN fails ELSE fails + 1
                /\ aborted' = (aborted \/ how # "ok")
                /\ inbox' = Reply(inbox, it.id, "invalid", how)
                /\ IF how = "ok"
                   THEN /\ todo' = Tail(todo)
                        /\ UNCHANGED <<pc, raw, fills, ptf, quotes, lastId, newLastId, processedAny>>
                   ELSE Exit
    /\ UNCHANGED <<cap, variant, filePtf, ledger, fileLastId, orderQuoted, last>>
    /\ UNCHANGED <<batch, note, ptf0, arg, res>>

\* fill_orders, lines 120-125: get_new_orders has returned; with no order
\* fill_orders returns, else the allowlist pass begins.
BotScanDone ==
    /\ variant = "bot" /\ pc = "scan" /\ todo = <<>>
    /\ IF raw = <<>>
       THEN Exit
       ELSE /\ pc' = "reject"
            /\ todo' = SelectSeq(raw, LAMBDA x : x.o.sym \notin Allow)
            /\ UNCHANGED <<raw, fills, ptf, quotes, lastId, newLastId, processedAny>>
    /\ UNCHANGED <<cap, variant, inbox, filePtf, ledger, fileLastId, orderQuoted, last, fails, aborted>>
    /\ UNCHANGED <<batch, note, ptf0, arg, res>>

\* fill_orders, lines 126-131: an order whose ticker is not allowed is
\* answered and its issue closed.
BotReject ==
    /\ variant = "bot" /\ pc = "reject" /\ todo # <<>>
    /\ LET x == Head(todo)
           r == [outcome |-> "not_allowed", rows |-> <<>>, lookup |-> FALSE]
       IN  \E how \in {"ok", "fail_comment", "fail_patch"} :
             /\ how # "ok" => fails < cap.fails
             /\ fails' = IF how = "ok" THEN fails ELSE fails + 1
             /\ aborted' = (aborted \/ how # "ok")
             /\ inbox' = mark_issue_done(inbox, x.num, how)
             /\ last' = Event(x.num, x.o, r, NoPx, ptf, ptf, how)
             /\ IF how = "ok"
                THEN /\ todo' = Tail(todo)
                     /\ UNCHANGED <<pc, raw, fills, ptf, quotes, lastId, newLastId, processedAny>>
                ELSE Exit
    /\ UNCHANGED <<cap, variant, filePtf, ledger, fileLastId, orderQuoted>>
    /\ UNCHANGED <<batch, note, ptf0, arg, res>>

\* fill_orders, lines 133-137: the rejected orders are dropped and the
\* quotes of the remaining tickers fetched in one call.  fetch_quotes
\* catches nothing: a lookup that raises ends the process.
BotQuotes ==
    /\ variant = "bot" /\ pc = "reject" /\ todo = <<>>
    /\ LET kept == SelectSeq(raw, LAMBDA x : x.o.sym \in Allow)
           tickers == { kept[i].o.sym : i \in 1..Len(kept) }
       IN  \E qs \in [tickers -> QuoteOutcomes], ok \in BOOLEAN :
             /\ ~ok => tickers # {} /\ fails < cap.fails
             /\ fails' = IF ok THEN fails ELSE fails + 1
             /\ aborted' = (aborted \/ ~ok)
             /\ orderQuoted' = tickers
             /\ IF ok
                THEN /\ raw' = kept
                     /\ todo' = kept
                     /\ quotes' = [t \in { u \in tickers : qs[u] # NoPx } |-> qs[t]]
                     /\ pc' = "fill"
                     /\ fills' = <<>>
                     /\ UNCHANGED <<ptf, lastId, newLastId, processedAny>>
                ELSE Exit
    /\ UNCHANGED <<cap, variant, inbox, filePtf, ledger, fileLastId, last>>
    /\ UNCHANGED <<batch, note, ptf0, arg, res>>

\* fill_orders, lines 140-169: one pass of the loop over an order.  The
\* ledger row is appended before mark_issue_done; a request of
\* mark_issue_done that fails ends the process before the portfolio is saved.
BotOrder ==
    /\ variant = "bot" /\ pc = "fill" /\ todo # <<>>
    /\ LET x == Head(todo)
           q == Get(quotes, x.o.sym, NoPx)
           r == fill_one(x.o.side, x.o.sym, x.o.qty, ptf, q, x.num)
       IN  \E np \in r.ptfs, how \in {"ok", "fail_comment", "fail_patch"} :
             /\ how # "ok" => fails < cap.fails
             /\ fails' = IF how = "ok" THEN fails ELSE fails + 1
             /\ aborted' = (aborted \/ how # "ok")
             /\ ledger' = ledger \o r.rows
             /\ inbox' = mark_issue_done(inbox, x.num, how)
             /\ last' = Event(x.num, x.o, r, q, ptf, np, how)
             /\ IF how = "ok"
                THEN /\ ptf' = np
                     /\ fills' = fills \o [i \in 1..Len(r.rows) |->
                                            [name |-> <<r.rows[i].side, x.o.sym>>,
                                             qty |-> x.o.qty, px |-> q]]
                     /\ todo' = Tail(todo)
                     /\ UNCHANGED <<pc, raw, quotes, lastId, newLastId, processedAny>>
                ELSE Exit
    /\ UNCHANGED <<cap, variant, filePtf, fileLastId, orderQuoted>>
    /\ UNCHANGED <<batch, note, ptf0, arg, res>>

\* fill_orders, lines 171-179: the portfolio is saved, cash rounded, and
\* the summary of the fills is posted to the webhook, whose failures are
\* printed and nothing else.
BotSave ==
    /\ variant = "bot" /\ pc = "fill" /\ todo = <<>>
    /\ \E c \in Round2(ptf.cash) :
         filePtf' = [cash |-> c, positions |-> ptf.positions]
    /\ note' = fill_summary(fills)
    /\ Exit
    /\ UNCHANGED <<cap, variant, inbox, ledger, fileLastId, orderQuoted, last, fails, aborted>>
    /\ UNCHANGED <<batch, ptf0, arg, res>>

\* ------------------------------------------- the functions on their own

\* Text for the parsers: what users type in the channel or in an issue,
\* and commands with a word too many, a suffix, the tokens in another order
\* or a token missing.
ParseInputs(buy, price, portfolio) ==
    { <<buy, "AAPL", "3", "now">>, <<buy, "AAPL", "3", "@mkt">>, <<buy, "3", "AAPL">>,
      <<buy, "AAPL">>, <<buy>>, <<price>>, <<price, "AAPL">>, <<price, "AAPL", "MSFT">>,
      <<portfolio>>, <<portfolio, "now">>, <<"!portfolios">>, <<"now", portfolio>>, <<>> }

\* The n-th ticker of a large portfolio is written n.  Every position is
\* of 1 to 3 shares.
Holding(n) == [t \in 1..n |-> 1 + (t % 3)]

\* Portfolios that are reported: whole cents of cash, 0 to MaxHeld positions.
DrawnPortfolios ==
    { [cash |-> c, positions |-> Holding(n)] : c \in {0, 1000}, n \in 0..MaxHeld }

\* What fetch_quotes may return for the tickers 1..n: a quote for all, for
\* none, for all but the first, for every other one; at one price or at
\* both in turn.
DrawnQuotes(n) ==
    { [t \in T |-> IF alt /\ t % 2 = 0 THEN 100 ELSE 105]
      : T \in { 1..n, {}, 2..n, { t \in 1..n : t % 2 = 0 } }, alt \in BOOLEAN }

\* The fills of a batch: 0 to MaxFills of them.
DrawnFills ==
    { [i \in 1..n |-> [name |-> <<IF i % 2 = 0 THEN "SELL" ELSE "BUY", i>>,
                        qty |-> 1, px |-> 100]] : n \in 0..MaxFills }

FnInputs ==
    { [fn |-> "parse_command", text |-> t]
      : t \in PollerTexts \cup ParseInputs("!buy", "!price", "!portfolio") }
    \cup { [fn |-> "parse_order", text |-> t]
           : t \in BotTexts \cup ParseInputs("/buy", "/price", "/portfolio") }
    \cup UNION { { [fn |-> f, ptf |-> p, quotes |-> qs]
                   : qs \in DrawnQuotes(Cardinality(DOMAIN p.positions)) }
                 : f \in {"do_portfolio", "mark_to_market"}, p \in DrawnPortfolios }
    \cup { [fn |-> "fill_summary", fills |-> fs] : fs \in DrawnFills }

\* No process runs; a function is about to be applied to a drawn input.
InitFn ==
    /\ cap = [msgs |-> 0, fails |-> 0]
    /\ variant = "none"
    /\ inbox = <<>>
    /\ filePtf = NoPtf
    /\ ledger = <<>>
    /\ fileLastId = NoneId
    /\ pc = "idle"
    /\ todo = <<>>
    /\ raw = <<>>
    /\ ptf = NoPtf
    /\ quotes = EmptyPos
    /\ lastId = NoneId
    /\ newLastId = NoneId
    /\ processedAny = FALSE
    /\ orderQuoted = {}
    /\ last = NoEvent
    /\ fails = 0
    /\ aborted = FALSE
    /\ fills = <<>>
    /\ batch = <<>>
    /\ note = NoEvent
    /\ ptf0 = NoPtf
    /\ arg \in FnInputs
    /\ res = NoEvent

\* A function is applied to arg and gives one of outs.
Call(outs) ==
    /\ res = NoEvent
    /\ \E o \in outs : res' = [kind |-> "result", out |-> o]
    /\ UNCHANGED <<cap, variant, inbox, filePtf, ledger, fileLastId, pc, todo, raw, ptf,
                   quotes, lastId, newLastId, processedAny, orderQuoted, last, fails,
                   aborted, fills, batch, note, ptf0, arg>>

CallParseCommand == arg.fn = "parse_command" /\ Call({ parse_command(arg.text) })
CallParseOrder == arg.fn = "parse_order" /\ Call({ parse_order(arg.text) })
CallDoPortfolio == arg.fn = "do_portfolio" /\ Call(do_portfolio(arg.ptf, arg.quotes))
CallMarkToMarket == arg.fn = "mark_to_market" /\ Call(mark_to_market(arg.ptf, arg.quotes))
CallFillSummary == arg.fn = "fill_summary" /\ Call({ fill_summary(arg.fills) })

\* ------------------------------------------------------ the specification

Next ==
    \/ Post
    \/ PollerStart
    \/ PollerSkip
    \/ PollerOrder
    \/ PollerQuery
    \/ PollerEnd
    \/ BotStart
    \/ BotScanOrder
    \/ BotScanInvalid
    \/ BotScanDone
    \/ BotReject
    \/ BotQuotes
    \/ BotOrder
    \/ BotSave

NextF ==
    \/ Next
    \/ PollerFetchFails
    \/ BotFetchFails

\* Runs in which every transport call succeeds.
Spec == Init /\ [][Next]_vars

\* Runs in which transport calls may fail.
SpecF == InitF /\ [][NextF]_vars

NextFn ==
    \/ CallParseCommand
    \/ CallParseOrder
    \/ CallDoPortfolio
    \/ CallMarkToMarket
    \/ CallFillSummary

\* The parsers and the functions that build the reports, each applied once
\* to an input drawn from FnInputs.
SpecFn == InitFn /\ [][NextFn]_vars

\* ================================================================ claims

Rejections == {"not_allowed", "no_price", "insufficient_cash", "not_enough_shares"}

\* A step that handles an order.
OrderStep == last' # last /\ last'.kind = "order"

\* C1 -- Rejection invariant.  In both variants the step that rejects an
\* order, whatever the gate, leaves the cash and the positions in memory,
\* the persisted portfolio and the ledger exactly as they were; and a
\* trade_bot.py batch whose orders left the portfolio as loaded saves the
\* file as it was.
C1_RejectionLeavesStateUnchanged ==
    [][ /\ (OrderStep /\ last'.outcome \in Rejections)
            => /\ last'.before = ptf
               /\ last'.after = ptf
               /\ last'.rows = <<>>
               /\ ptf' = ptf
               /\ filePtf' = filePtf
               /\ ledger' = ledger
        /\ (variant = "bot" /\ pc = "fill" /\ pc' = "idle" /\ ptf = filePtf)
            => filePtf' = filePtf
      ]_vars

\* C1 witness: an order has been rejected after an earlier fill of the run.
C1_Witness ==
    /\ last.kind = "order"
    /\ last.outcome \in Rejections
    /\ pc # "idle"
    /\ ledger # <<>>

C3_NoZeroPosition ==
    /\ \A t \in DOMAIN ptf.positions : ptf.positions[t] >= 1
    /\ \A t \in DOMAIN filePtf.positions : filePtf.positions[t] >= 1

\* C4 -- Every order the parser produces, and so every order that reaches
\* the fill engine, has quantity >= 1.
C4_QuantityPositive ==
    /\ \A i \in 1..Len(raw) : raw[i].o.qty >= 1
    /\ last.kind = "order" => last.qty >= 1

\* The order last handled was on an allowlisted ticker that had a quote.
Quoted == last.kind = "order" /\ last.sym \in Allow /\ last.px # NoPx
Cost == last.qty * last.px
Held == Get(last.before.positions, last.sym, 0)

\* What a filled buy leaves: the cash less the cost (rounded to cents by
\* trader_poller.py at once, by trade_bot.py on save), the ticker's
\* quantity raised by qty, every other position as it was, one BUY row.
BuyEffects ==
    /\ IF variant = "poller" THEN last.after.cash \in Round2(last.before.cash - Cost)
       ELSE last.after.cash = last.before.cash - Cost
    /\ last.after.positions = Put(last.before.positions, last.sym, Held + last.qty)
    /\ last.rows = <<LedgerRow("BUY", last.sym, last.qty, last.px, last.id)>>

\* C5 -- Accepted buy: every buy on an allowlisted, quoted ticker with
\* qty * price <= cash is filled: the cash falls by qty * price (rounded to
\* cents), the held quantity rises by qty, the other positions stay and one
\* BUY ledger record with that ticker, qty, price and notional is appended.
C5_AcceptedBuy ==
    (Quoted /\ last.side = "buy" /\ Cost <= last.before.cash)
        => last.outcome = "filled_buy" /\ BuyEffects

\* What a filled sell leaves, but for the cash: the ticker's quantity less
\* qty, its entry gone when that is zero, one SELL row.
SellEffects ==
    /\ last.after.positions =
          IF Held - last.qty # 0 THEN Put(last.before.positions, last.sym, Held - last.qty)
          ELSE Pop(last.before.positions, last.sym)
    /\ Held - last.qty = 0 => last.sym \notin DOMAIN last.after.positions
    /\ last.rows = <<LedgerRow("SELL", last.sym, last.qty, last.px, last.id)>>

\* C6 as stated -- Accepted sell: a sell on an allowlisted, quoted ticker
\* with qty <= held is filled, the cash becomes the previous cash plus
\* qty * price, one SELL record is appended and the entry is held - qty or
\* absent; a sell with qty > held is rejected 'not enough shares'.
C6_AcceptedSell_ExactCash ==
    (Quoted /\ last.side = "sell")
        => IF last.qty <= Held
           THEN /\ last.outcome = "filled_sell"
                /\ last.after.cash = last.before.cash + Cost
                /\ SellEffects
           ELSE last.outcome = "not_enough_shares"

\* C6 amended -- as C6, with the cash rounded to cents: trader_poller.py
\* leaves round(cash + qty * price, 2) after the fill; trade_bot.py adds
\* qty * price and rounds when it saves, so the persisted cash is always
\* whole cents.
C6_AcceptedSell_RoundedCash ==
    /\ (Quoted /\ last.side = "sell")
        => IF last.qty <= Held
           THEN /\ last.outcome = "filled_sell"
                /\ IF variant = "poller"
                   THEN last.after.cash \in Round2(last.before.cash + Cost)
                   ELSE last.after.cash = last.before.cash + Cost
                /\ SellEffects
           ELSE last.outcome = "not_enough_shares"
    /\ filePtf.cash % 10 = 0
    /\ pc # "idle" /\ last.kind = "order" => ptf = last.after

\* C6 witness: a sell of the whole position at a quote finer than a cent
\* has been filled and persisted.
C6_Witness ==
    /\ Quoted /\ last.side = "sell" /\ last.outcome = "filled_sell"
    /\ last.px = 105
    /\ last.sym \notin DOMAIN last.after.positions
    /\ pc = "idle"
    /\ filePtf.positions = last.after.positions

\* C7 -- Buy boundary: in both variants a buy on an allowlisted, quoted
\* ticker is rejected 'insufficient cash' iff qty * price exceeds the
\* cash; a cost equal to the cash is accepted and leaves cash 0; the two
\* variants decide every such buy alike.
C7_BuyBoundary ==
    (Quoted /\ last.side = "buy")
        => /\ last.outcome = "insufficient_cash" <=> Cost > last.before.cash
           /\ Cost = last.before.cash => last.outcome = "filled_buy" /\ last.after.cash = 0
           /\ PollerInsufficient(last.qty, last.px, last.before.cash)
                 = BotInsufficient(last.qty, last.px, last.before.cash)

\* C8 -- The gates apply in the order allowlist, quote, cash or shares, and
\* the first that fails decides: an order on a ticker outside the allowlist
\* is rejected 'not allowed' whatever else holds and no quote is looked up
\* for it; an order on an allowlisted ticker with no quote is rejected
\* 'no price'; only an order that passed both reaches the cash or share gate.
C8_GateOrder ==
    /\ orderQuoted \subseteq Allow
    /\ last.kind = "order" =>
        /\ last.sym \notin Allow => last.outcome = "not_allowed" /\ ~last.lookup
        /\ (last.sym \in Allow /\ last.px = NoPx) => last.outcome = "no_price" /\ last.lookup
        /\ last.outcome = "insufficient_cash" => Quoted /\ last.side = "buy"
        /\ last.outcome = "not_enough_shares" => Quoted /\ last.side = "sell"
        /\ last.outcome \in {"filled_buy", "filled_sell"} => Quoted

\* C8 witness: an order on a disallowed ticker has been rejected although
\* the cash would have covered it at any quote.
C8_Witness ==
    /\ last.kind = "order"
    /\ last.sym \notin Allow
    /\ last.outcome = "not_allowed"
    /\ last.side = "buy"
    /\ last.qty * 105 <= last.before.cash

\* C9 -- Batch semantics: both variants handle the orders of a batch oldest
\* first, each against the portfolio the earlier ones left: the order just
\* evaluated is older than the order the loop visits next.
C9_OldestFirst ==
    /\ (pc = "loop" /\ last.kind = "order" /\ todo # <<>>)
        => last.id < Head(todo).id
    /\ (pc = "fill" /\ last.kind = "order" /\ last.outcome # "not_allowed" /\ todo # <<>>)
        => last.id < Head(todo).num
    /\ pc \in {"loop", "fill"} /\ last.kind = "order" => ptf = last.after

\* Ledger records that item id produced.
FillCount(id) == Cardinality({ i \in 1..Len(ledger) : ledger[i].src = id })

PollerFetches == variant = "poller" /\ pc = "idle" /\ pc' = "loop"
PollerCompletes == variant = "poller" /\ pc = "loop" /\ todo = <<>> /\ pc' = "idle"

\* C11 -- Cursor discipline of the channel poller: a run fetches only
\* messages strictly after the saved last_message_id; when the run completes
\* the saved last_message_id is the identifier of the newest message it
\* fetched, whatever the messages were and however their handling went,
\* and is unchanged when nothing was fetched; the cursor never moves back.
C11_CursorDiscipline ==
    [][ /\ PollerFetches =>
            /\ \A i \in 1..Len(batch') : batch'[i] > fileLastId
            /\ \A i \in 1..Len(inbox) : inbox[i].id > fileLastId
                    => \E j \in 1..Len(batch') : batch'[j] = inbox[i].id
        /\ PollerCompletes =>
            IF batch = <<>> THEN fileLastId' = fileLastId
            ELSE /\ \E i \in 1..Len(batch) : fileLastId' = batch[i]
                 /\ \A i \in 1..Len(batch) : batch[i] <= fileLastId'
        /\ fileLastId' >= fileLastId
      ]_vars

\* C11 witness: a run that fetched an order and, after it, text that is no
\* command has completed, and the cursor is at that last message.
C11_Witness ==
    /\ variant = "poller" /\ pc = "idle"
    /\ batch = <<1, 2>>
    /\ parse_command(inbox[1].text).kind = "order"
    /\ parse_command(inbox[2].text).kind = "none"
    /\ fileLastId = 2

\* Item id is marked handled: the cursor is at or past the message; the
\* issue is closed or relabelled invalid and has one reply.
Handled(id, cursor, inb) ==
    IF variant = "poller" THEN id <= cursor
    ELSE inb[id].status \in {"closed", "invalid"} /\ inb[id].comments = 1

\* A step that begins a run, and a step that completes one.
RunBegins == pc = "idle" /\ pc' # "idle"
RunCompletes == pc # "idle" /\ pc' = "idle" /\ fails' = fails

\* C12 -- A rejected order is a terminal outcome.  trade_bot.py comments
\* and closes the issue in the step that rejects; when a run completes,
\* every item it fetched is marked handled (the cursor is past the message;
\* the issue is closed or relabelled invalid, with exactly one reply); an
\* item marked handled stays so, no later run fetches it, and only fetched
\* items not yet marked are evaluated.
C12_RejectionTerminal ==
    [][ /\ (OrderStep /\ variant = "bot" /\ last'.outcome \in Rejections)
            => Handled(last'.id, fileLastId', inbox')
        /\ RunCompletes
            => \A i \in 1..Len(batch) : Handled(batch[i], fileLastId', inbox')
        /\ \A id \in 1..Len(inbox) :
              Handled(id, fileLastId, inbox) => Handled(id, fileLastId', inbox')
        /\ RunBegins
            => \A i \in 1..Len(batch') : ~Handled(batch'[i], fileLastId, inbox)
        /\ OrderStep
            => /\ ~Handled(last'.id, fileLastId, inbox)
               /\ \E i \in 1..Len(batch) : batch[i] = last'.id
      ]_vars

\* C12 witness: an order on a disallowed ticker was rejected in a run that
\* completed, and the next run has fetched the item posted after it and
\* nothing else.
C12_Witness ==
    /\ Len(inbox) = 2
    /\ Len(inbox[1].text) = 3 /\ inbox[1].text[2] = "ZZZZ"
    /\ Handled(1, fileLastId, inbox)
    /\ pc # "idle"
    /\ batch = <<2>>

\* C13 -- Items authored by a bot are skipped: the pass of a loop over an
\* item whose author is a bot, whatever its text, changes neither the
\* portfolio nor the ledger, looks up no quote, posts nothing and keeps no
\* order of it; no order that is handled comes from such an item.
C13_BotItemsSkipped ==
    [][ /\ (pc \in {"loop", "scan"} /\ todo # <<>> /\ Head(todo).bot /\ todo' # todo)
            => /\ ptf' = ptf /\ filePtf' = filePtf /\ ledger' = ledger
               /\ orderQuoted' = orderQuoted /\ note' = note
               /\ raw' = raw /\ inbox' = inbox
        /\ OrderStep => ~inbox[last'.id].bot
      ]_vars

\* C14 -- A quote lookup that fails does not abort the batch, in either
\* variant: trade_bot.py goes from the quote fetch to the fill loop with
\* every allowlisted order of the batch still to be handled; an order whose
\* ticker got no quote is rejected 'no price' and the loop goes on.
C14_QuoteFailureKeepsBatch ==
    [][ /\ (variant = "bot" /\ pc = "reject" /\ todo = <<>> /\ pc' # pc)
            => /\ pc' = "fill"
               /\ todo' = SelectSeq(raw, LAMBDA x : x.o.sym \in Allow)
        /\ (OrderStep /\ last'.lookup /\ last'.px = NoPx /\ fails' = fails)
            => /\ last'.outcome = "no_price"
               /\ pc' = pc
               /\ todo' = Tail(todo)
      ]_vars

\* C15 -- A post on the required transport that fails aborts the rest of
\* the run: the step in which a request of a running process fails ends the
\* process, with the items left in its batch unvisited and nothing posted
\* in place of what failed.
C15_PostFailureAborts ==
    [][ (pc # "idle" /\ fails' > fails)
            => /\ pc' = "idle"
               /\ todo' = <<>>
               /\ note' = note
      ]_vars

\* A step of main that handles the price or portfolio query c.
QueryStep(c) ==
    /\ variant = "poller" /\ pc = "loop" /\ todo # <<>>
    /\ ~Head(todo).bot
    /\ parse_command(Head(todo).text) = c
    /\ c.kind \in {"price", "portfolio"}
    /\ todo' # todo

\* C16 -- Price and portfolio queries are read-only: the step that handles
\* one leaves the cash and the positions, persisted and (while the process
\* lives) in memory, and the ledger as they were, whatever the quotes and
\* whatever becomes of the post; a price query on any ticker
\* the grammar admits, allowlisted or not, is answered with the price when
\* the lookup gave one and with 'no price' when it gave none.
C16_QueriesReadOnly ==
    [][ \A c \in { parse_command(t) : t \in PollerTexts } :
          QueryStep(c) =>
            /\ filePtf' = filePtf /\ ledger' = ledger
            /\ pc' # "idle" => ptf' = ptf
            /\ (c.kind = "price" /\ fails' = fails) =>
                  /\ note'.sym = c.sym
                  /\ note'.kind = IF note'.quote = NoPx THEN "no_price" ELSE "price"
                  /\ note'.kind = "price" => note'.px \in Round2(note'.quote)
      ]_vars

\* C16 witness: after a fill of the same run, a price query on a ticker
\* outside the allowlist has been answered with its price.
C16_Witness ==
    /\ note.kind = "price"
    /\ note.sym \notin Allow
    /\ ledger # <<>>
    /\ ptf = filePtf /\ pc = "loop"

\* The sum of pos[t] * qs[t] over the tickers of T.
RECURSIVE Equity(_, _, _)
Equity(T, pos, qs) ==
    IF T = {} THEN 0
    ELSE LET t == CHOOSE x \in T : TRUE
         IN  pos[t] * qs[t] + Equity(T \ {t}, pos, qs)

\* A portfolio report or a daily mark has been built from arg.
Reported == res # NoEvent /\ arg.fn \in {"do_portfolio", "mark_to_market"}

\* Cash plus the value of the held positions that have a quote.
Nav == arg.ptf.cash
         + Equity(DOMAIN arg.ptf.positions \cap DOMAIN arg.quotes, arg.ptf.positions, arg.quotes)

\* C17 as stated -- NAV identity: the net asset value do_portfolio and
\* mark_to_market report equals cash plus the sum of quantity * price over
\* exactly the held positions that have a quote; with no positions it is
\* the cash alone.
C17_NavIdentity_Exact ==
    Reported =>
        /\ res.out.nav = Nav
        /\ DOMAIN arg.ptf.positions = {} => res.out.nav = arg.ptf.cash

\* C17 amended -- as C17, with the reported figure rounded to cents: it is
\* cash plus the sum of quantity * price over exactly the held positions
\* that have a quote, formatted with two decimals; the positions without a
\* quote add nothing and have no field; with no positions the figure is the
\* cash alone.
C17_NavIdentity_Rounded ==
    Reported =>
        /\ res.out.nav \in Round2(Nav)
        /\ res.out.cash = arg.ptf.cash
        /\ DOMAIN arg.ptf.positions = {} => res.out.nav = arg.ptf.cash
        /\ \A i \in 1..Len(res.out.fields) :
              /\ res.out.fields[i].name \in DOMAIN arg.ptf.positions \cap DOMAIN arg.quotes
              /\ res.out.fields[i].val
                    = arg.ptf.positions[res.out.fields[i].name] * arg.quotes[res.out.fields[i].name]

\* C17 witness: a portfolio with a position that has no quote and others
\* that have one, worth a fraction of a cent in all, has been reported.
C17_Witness ==
    /\ Reported
    /\ \E t \in DOMAIN arg.ptf.positions : t \notin DOMAIN arg.quotes
    /\ \E t \in DOMAIN arg.ptf.positions : t \in DOMAIN arg.quotes
    /\ arg.ptf.cash > 0
    /\ Nav % 10 = 5
    /\ res.out.nav > arg.ptf.cash

\* The fixed grammar: exactly the command word, a ticker and a quantity;
\* exactly the price word and a ticker; exactly the portfolio word.
ExactOrder(text, words) ==
    Len(text) = 3 /\ Lower(text[1]) \in words /\ IsTickerTok(text[2]) /\ IsDigitsTok(text[3])
ExactPrice(text) == Len(text) = 2 /\ Lower(text[1]) = "!price" /\ IsTickerTok(text[2])
ExactPortfolio(text) == Len(text) = 1 /\ Lower(text[1]) = "!portfolio"

\* C18 -- The parsers accept only the fixed grammar: parse_command gives
\* an order, a price query or a portfolio query exactly for text that is
\* exactly such a command, parse_order gives an order exactly for text that
\* is exactly an order, and any other token sequence (a command followed by
\* a word or a suffix, tokens in another order, a token missing) gives
\* nothing.
C18_FixedGrammar ==
    /\ (res # NoEvent /\ arg.fn = "parse_command") =>
          /\ res.out.kind = "order" <=> ExactOrder(arg.text, {"!buy", "!sell"})
          /\ res.out.kind = "price" <=> ExactPrice(arg.text)
          /\ res.out.kind = "portfolio" <=> ExactPortfolio(arg.text)
          /\ res.out.kind \in {"order", "price", "portfolio", "none"}
    /\ (res # NoEvent /\ arg.fn = "parse_order") =>
          /\ res.out.kind = "order" <=> ExactOrder(arg.text, {"/buy", "/sell"})
          /\ res.out.kind \in {"order", "none"}

\* C19 -- Every structured notification carries at most 25 fields, however
\* many fills the batch had and however many positions are held: the
\* order-fill summary, the daily mark and the portfolio report, built on
\* their own or posted by a run.
C19_FieldCap ==
    /\ (res # NoEvent /\ arg.fn \in {"do_portfolio", "mark_to_market", "fill_summary"}
            /\ res.out # NoEvent)
          => Len(res.out.fields) <= FieldCap
    /\ note.kind \in {"portfolio", "fills", "order"} => Len(note.fields) <= FieldCap

\* The cash the ledger rows add up to: less the notional of a BUY, plus
\* the notional of a SELL.
RECURSIVE CashFlow(_)
CashFlow(rows) ==
    IF rows = <<>> THEN 0
    ELSE (IF Head(rows).side = "BUY" THEN 0 - Head(rows).value ELSE Head(rows).value)
         + CashFlow(Tail(rows))

\* The quantity of ticker t the ledger rows add up to: bought less sold.
RECURSIVE NetQty(_, _)
NetQty(rows, t) ==
    IF rows = <<>> THEN 0
    ELSE (IF Head(rows).ticker # t THEN 0
          ELSE IF Head(rows).side = "BUY" THEN Head(rows).qty ELSE 0 - Head(rows).qty)
         + NetQty(Tail(rows), t)

\* C20 -- Ledger and persisted portfolio agree after every run, also one
\* ended by a transport failure: when no process runs, the persisted cash
\* is the initial cash less the notional of the BUY records plus that of
\* the SELL records, and every persisted position is the initial one plus
\* the net quantity the ledger records for that ticker.
C20_LedgerAgrees ==
    pc = "idle" =>
        /\ filePtf.cash = ptf0.cash + CashFlow(ledger)
        /\ \A t \in Allow \cup DOMAIN filePtf.positions :
              Get(filePtf.positions, t, 0) = Get(ptf0.positions, t, 0) + NetQty(ledger, t)

====
